---- MODULE Spec2Model ----
(***************************************************************************)
(* Model of the macro-market-matrix ticker pipeline:                       *)
(*   - the fixed-window rate limiter shared by FinnhubClient,              *)
(*     CompanyInfoClient and YFinanceClient (_wait_for_rate_limit),        *)
(*   - FinnhubClient.lookup_symbol (suffix stripping, aliases, tiers),     *)
(*   - YFinanceClient.lookup_symbol (known tickers, ticker guesses),      *)
(*   - the batch runs: create_company_ticker_map and the unmapped passes  *)
(*     of financials, yf_lookup and process_market_data (Perplexity),     *)
(*   - utils: find_unmapped_companies and clean_duplicate_tickers,        *)
(*   - the mapping store (get_next_available_filename, save_mappings,      *)
(*     get_latest_mapping_file).                                           *)
(* Strings are TLA+ strings; Len, SubSeq and \o act on them as on          *)
(* sequences of characters.                                                *)
(***************************************************************************)
EXTENDS Integers, Sequences, FiniteSets, TLC

VARIABLES
    \* ---- rate limiter (one client instance) ----
    now,                \* time.time(), in seconds
    last_call_time,     \* self.last_call_time
    calls_this_minute,  \* self.calls_this_minute
    returns,            \* history: return times of the latest acquires
    acq,                \* history: the latest acquire, as invoked and as returned
    \* ---- one call of FinnhubClient.lookup_symbol ----
    company_name,       \* the argument
    provider_response,  \* what self.client.symbol_lookup answers (or raises)
    lookup,             \* the call's outcome: term sent, value returned
    \* ---- one rate-limited client, call after call ----
    client,             \* which client: "finnhub", "yfinance" or "company_info"
    acquires,           \* history: the _wait_for_rate_limit calls that returned
    requests_sent,      \* history: the requests sent to the provider
    \* ---- files on disk ----
    taxonomy,           \* enriched_market_matrix.json: its companies, in file order
    unmapped_file,      \* unmapped_companies.json
    fs,                 \* company_ticker_map*.json: file k is company_ticker_map_k.json,
                        \* file 1 company_ticker_map.json
    \* ---- the script that is running, or ran last ----
    runs,               \* how many scripts have been started
    op,                 \* which script
    pc,                 \* "idle", "running", "done" or "failed" (it raised)
    idx,                \* position of the loop over the companies
    latest_file,        \* get_latest_mapping_file()[0], 0 for None
    existing_mappings,  \* the prior mappings
    new_mappings,       \* new_mappings (company_ticker_map in a create run)
    output_file,        \* the file the run wrote, 0 for none
    called,             \* history: the resolver's calls of this run, by name, in order
    erred,              \* history: the names whose provider call raised in this run
    prev_pass,          \* history: the latest unmapped pass that wrote an artifact
    \* ---- process_market_data.process_all_sectors ----
    market_matrix,      \* market_matrix.json: the sectors, each with its subsectors
    enrich_pc,          \* "idle", "gathering", "done" or "failed" (it raised)
    task_pc,            \* per task of gather: "queued", "requesting" or "done"
    permits,            \* the semaphore's value
    task_results,       \* per task: what get_companies_for_subsector returned (results)
    enriched_out,       \* enriched_market_matrix.json as process_all_sectors leaves it
    issue_log,          \* history: per request issued, the task and the slots
                        \* released before it
    responses           \* history: per task, what the provider call did

limiterVars == <<now, last_call_time, calls_this_minute, returns, acq>>
clientVars == <<client, acquires, requests_sent>>
resolverVars == <<company_name, provider_response, lookup, clientVars>>
diskVars == <<taxonomy, unmapped_file, fs>>
runVars == <<runs, op, pc, idx, latest_file, existing_mappings, new_mappings, output_file,
             called, erred, prev_pass>>

enrichVars == <<market_matrix, enrich_pc, task_pc, permits, task_results, enriched_out,
               issue_log, responses>>

vars == <<now, last_call_time, calls_this_minute, returns, acq,
          company_name, provider_response, lookup, client, acquires, requests_sent,
          taxonomy, unmapped_file, fs,
          runs, op, pc, idx, latest_file, existing_mappings, new_mappings, output_file,
          called, erred, prev_pass,
          market_matrix, enrich_pc, task_pc, permits, task_results, enriched_out, issue_log,
          responses>>

\* ------------------------------------------------------------------------
\* Bounds and program constants
\* ------------------------------------------------------------------------

\* self.rate_limit; 45 in the source, scaled so that a window fills within
\* the clock horizon
rate_limit == 2

\* the 60 of "minute_ago = current_time - 60" and of "sleep_time = 60 - ..."
Window == 60

\* the clock starts here: time.time() is far more than a window past 0,
\* the value last_call_time is constructed with
Epoch == 100

\* the clock horizon of the rate limiter specification, past Epoch
MaxElapsed == 64

\* the steps the clock takes between two acquires: within a window, to its
\* end, and past it
TickSteps == {1, 2, 59, 61}

\* ------------------------------------------------------------------------
\* RateLimiter: _wait_for_rate_limit
\* ------------------------------------------------------------------------

NoAcquire == [t_call |-> 0, last0 |-> 0, calls0 |-> 0]

\* __init__: last_call_time = 0, calls_this_minute = 0
ClientInit ==
    /\ last_call_time = 0
    /\ calls_this_minute = 0
    /\ returns = <<>>
    /\ acq = NoAcquire

\* no client is followed call after call
NoClient ==
    /\ client = "none"
    /\ acquires = 0
    /\ requests_sent = 0

\* sleep_time = 60 - (current_time - self.last_call_time)
sleep_time(current_time, last) == Window - (current_time - last)

\* the branch "elif self.calls_this_minute >= self.rate_limit"
MustWait(current_time, last, calls) ==
    /\ ~(last < current_time - Window)
    /\ calls >= rate_limit

\* a limiter that sleeps and then goes on counting from where it was
CounterKeptAfterSleep(current_time, last, calls) ==
    IF last < current_time - Window THEN 0 ELSE calls

\* the counter after the if/elif: both branches reset it to 0
CounterAfterBranches(current_time, last, calls) ==
    IF last < current_time - Window THEN 0
    ELSE IF calls >= rate_limit THEN 0
    ELSE calls

\* self.last_call_time = current_time: the time read on entry, before any sleep
RecordedCallTime(current_time, t_ret) == current_time

\* keep the latest rate_limit + 1 return times
Remember(hist, t) ==
    LET h == Append(hist, t)
    IN  IF Len(h) > rate_limit + 1 THEN Tail(h) ELSE h

\* one call of _wait_for_rate_limit; time.sleep returns when the time asked
\* for has passed
WaitForRateLimit ==
    LET current_time == now
        wait  == MustWait(current_time, last_call_time, calls_this_minute)
        t_ret == IF wait
                 THEN current_time + sleep_time(current_time, last_call_time)
                 ELSE current_time
    IN  /\ now' = t_ret
        /\ calls_this_minute' =
              CounterAfterBranches(current_time, last_call_time, calls_this_minute) + 1
        /\ last_call_time' = RecordedCallTime(current_time, t_ret)
        /\ returns' = Remember(returns, t_ret)
        /\ acq' = [t_call |-> current_time, last0 |-> last_call_time,
                   calls0 |-> calls_this_minute]

\* ------------------------------------------------------------------------
\* Strings, as Python's str methods compute them
\* ------------------------------------------------------------------------

UpperCase == "ABCDEFGHIJKLMNOPQRSTUVWXYZ"
LowerCase == "abcdefghijklmnopqrstuvwxyz"

\* str.lower() on one character
LowerChar(c) ==
    IF \E i \in 1..Len(UpperCase) : SubSeq(UpperCase, i, i) = c
    THEN LET i == CHOOSE j \in 1..Len(UpperCase) : SubSeq(UpperCase, j, j) = c
         IN  SubSeq(LowerCase, i, i)
    ELSE c

\* str.lower()
RECURSIVE Lower(_)
Lower(s) ==
    IF s = "" THEN ""
    ELSE LowerChar(SubSeq(s, 1, 1)) \o Lower(SubSeq(s, 2, Len(s)))

\* str.replace(old, ''): every occurrence of old, left to right, not overlapping
RECURSIVE Remove(_, _)
Remove(s, old) ==
    IF Len(s) < Len(old) THEN s
    ELSE IF SubSeq(s, 1, Len(old)) = old
         THEN Remove(SubSeq(s, Len(old) + 1, Len(s)), old)
         ELSE SubSeq(s, 1, 1) \o Remove(SubSeq(s, 2, Len(s)), old)

\* str.strip()
RECURSIVE Strip(_)
Strip(s) ==
    IF s = "" THEN ""
    ELSE IF SubSeq(s, 1, 1) = " " THEN Strip(SubSeq(s, 2, Len(s)))
    ELSE IF SubSeq(s, Len(s), Len(s)) = " " THEN Strip(SubSeq(s, 1, Len(s) - 1))
    ELSE s

\* a containment test that an empty string never passes
ContainsNonEmpty(s, sub) ==
    /\ sub # ""
    /\ \E i \in 0..(Len(s) - Len(sub)) : SubSeq(s, i + 1, i + Len(sub)) = sub

\* sub in s
Contains(s, sub) ==
    \E i \in 0..(Len(s) - Len(sub)) : SubSeq(s, i + 1, i + Len(sub)) = sub

\* set(s.split()): the maximal runs of non-blank characters
Words(s) ==
    LET blank(i) == SubSeq(s, i, i) = " "
    IN  { SubSeq(s, i, j) : <<i, j>> \in
            { p \in (1..Len(s)) \X (1..Len(s)) :
                /\ p[1] <= p[2]
                /\ \A k \in p[1]..p[2] : ~blank(k)
                /\ (p[1] = 1 \/ blank(p[1] - 1))
                /\ (p[2] = Len(s) \/ blank(p[2] + 1)) } }

\* ------------------------------------------------------------------------
\* SymbolResolver: FinnhubClient.lookup_symbol
\* ------------------------------------------------------------------------

None == "<None>"
\* an exception leaving the function
Raised == "<raise>"

\* the suffix list of the clean-up loop, in order
SUFFIXES == << " inc.", " inc", " corp.", " corp", " corporation", " ltd.", " ltd",
               " limited", " plc", " s.a.", " ag", " co.", ",", "." >>

\* self.COMPANY_ALIASES, in insertion order
COMPANY_ALIASES == << <<"alphabet inc", "google">>,
                      <<"meta platforms", "facebook">>,
                      <<"amazon", "amazon.com">>,
                      <<"berkshire hathaway", "brk">> >>

\* for suffix in [...]: name_to_search = name_to_search.replace(suffix, '')
RECURSIVE StripSuffixes(_, _)
StripSuffixes(s, i) ==
    IF i > Len(SUFFIXES) THEN s
    ELSE StripSuffixes(Remove(s, SUFFIXES[i]), i + 1)

\* name_to_search after the clean-up: lower, suffixes removed, strip
CleanName(name) == Strip(StripSuffixes(Lower(name), 1))

\* the alias loop: the first alias key found in the name replaces it
RECURSIVE ApplyAliases(_, _)
ApplyAliases(name, i) ==
    IF i > Len(COMPANY_ALIASES) THEN name
    ELSE IF Contains(name, COMPANY_ALIASES[i][1]) THEN COMPANY_ALIASES[i][2]
    ELSE ApplyAliases(name, i + 1)

\* name_to_search as passed to self.client.symbol_lookup
SearchTerm(name) == ApplyAliases(CleanName(name), 1)

IsCommonStock(r) == r.type = "Common Stock"
\* '.' not in result["symbol"]
IsUSListing(r) == ~Contains(r.symbol, ".")

\* a first loop that forgets the test for a US listing
Tier1MatchAnyListing(r, name_to_search, name) ==
    /\ r.type = "Common Stock"
    /\ \/ Contains(Lower(r.description), name_to_search)
       \/ Contains(Lower(r.description), Lower(name))

\* the condition of the first loop
Tier1Match(r, name_to_search, name) ==
    /\ IsCommonStock(r)
    /\ IsUSListing(r)
    /\ \/ Contains(Lower(r.description), name_to_search)
       \/ Contains(Lower(r.description), Lower(name))

\* the condition of the second loop, once past its type and symbol test;
\* Raised is the ZeroDivisionError of an empty search_words
Tier2Ratio(r, name_to_search) ==
    LET desc_words   == Words(Lower(r.description))
        search_words == Words(name_to_search)
    IN  IF Cardinality(search_words) = 0 THEN Raised
        ELSE IF 2 * Cardinality(search_words \cap desc_words) > Cardinality(search_words)
             THEN "match" ELSE "no"

\* first loop: the first result that matches, or None
RECURSIVE Tier1(_, _, _, _)
Tier1(results, i, name_to_search, name) ==
    IF i > Len(results) THEN None
    ELSE IF Tier1Match(results[i], name_to_search, name) THEN results[i].symbol
    ELSE Tier1(results, i + 1, name_to_search, name)

\* second loop
RECURSIVE Tier2(_, _, _)
Tier2(results, i, name_to_search) ==
    IF i > Len(results) THEN None
    ELSE IF IsCommonStock(results[i]) /\ IsUSListing(results[i])
         THEN LET q == Tier2Ratio(results[i], name_to_search)
              IN  IF q = Raised THEN Raised
                  ELSE IF q = "match" THEN results[i].symbol
                  ELSE Tier2(results, i + 1, name_to_search)
         ELSE Tier2(results, i + 1, name_to_search)

\* a third loop that passes over the listings with an exchange suffix
RECURSIVE Tier3USListing(_, _)
Tier3USListing(results, i) ==
    IF i > Len(results) THEN None
    ELSE IF IsCommonStock(results[i]) /\ IsUSListing(results[i]) THEN results[i].symbol
    ELSE Tier3USListing(results, i + 1)

\* third loop
RECURSIVE Tier3(_, _)
Tier3(results, i) ==
    IF i > Len(results) THEN None
    ELSE IF IsCommonStock(results[i]) THEN results[i].symbol
    ELSE Tier3(results, i + 1)

\* the three loops in order, first return wins
Tiers(results, name_to_search, name) ==
    LET t1 == Tier1(results, 1, name_to_search, name)
        t2 == Tier2(results, 1, name_to_search)
    IN  IF t1 # None THEN t1
        ELSE IF t2 # None THEN t2
        ELSE Tier3(results, 1)

\* a lookup that lets the provider's exception leave the function
LookupErrorPropagates == Raised

\* except Exception as e: logging.error(...); return None
OnLookupError == None

\* lookup_symbol past the rate limiter: the value returned for the provider's
\* answer, [error |-> TRUE] when symbol_lookup raises
lookup_symbol(name, resp) ==
    IF resp.error THEN OnLookupError
    ELSE IF resp.result = <<>> THEN None
    ELSE LET t == Tiers(resp.result, SearchTerm(name), name)
         IN  IF t = Raised THEN OnLookupError ELSE t

\* ---- specification: one lookup_symbol call on any name and provider answer ----

\* company names given to lookup_symbol
CompanyNames == { "Alphabet Inc.", "abc corp", "ABC Corp.", "Acme Holdings Ltd",
                  "Meta Platforms, Inc.", "." }

\* the results the provider draws its answer from
ResultPool == <<
    [type |-> "Common Stock", symbol |-> "ABC.L", description |-> "abc corp"],
    [type |-> "Common Stock", symbol |-> "ABC",   description |-> "ABC CORP"],
    [type |-> "ETF",          symbol |-> "ABCE",  description |-> "abc corp etf"],
    [type |-> "Common Stock", symbol |-> "ACMH",  description |-> "ACME INDUSTRIAL HOLDINGS"],
    [type |-> "Common Stock", symbol |-> "GOOGL", description |-> "ALPHABET INC-CL A"],
    [type |-> "Common Stock", symbol |-> "ZZZ",   description |-> "unrelated co"] >>

\* the longest result list
MaxResults == 3

ResultLists ==
    UNION { [1..n -> {ResultPool[k] : k \in 1..Len(ResultPool)}] : n \in 0..MaxResults }

ProviderError == [error |-> TRUE, result |-> <<>>]

Responses == {ProviderError} \cup { [error |-> FALSE, result |-> rs] : rs \in ResultLists }

\* ------------------------------------------------------------------------
\* MappingStore: file_utils.py
\* ------------------------------------------------------------------------

\* the scripts the model lets run, one after another
MaxRuns == 2

\* the highest number of a mapping file found on disk at the start
MaxInitialFile == 2

\* the file names the model follows: every run may write one file
MaxFiles == MaxInitialFile + MaxRuns

\* the values of "mappings": a plain symbol string, null, or {sym, notes};
\* others holds the companies a note names
Plain(sym) == [shape |-> "str", sym |-> sym, notes |-> None, others |-> {}]
NullValue  == [shape |-> "null", sym |-> None, notes |-> None, others |-> {}]
Annotated(sym, notes, others) ==
    [shape |-> "dict", sym |-> sym, notes |-> notes, others |-> others]

\* {}
EmptyMappings == [n \in {} |-> NullValue]

NoFile == [exists |-> FALSE, mtime |-> 0, parses |-> FALSE,
           mappings |-> EmptyMappings, total_companies |-> 0, mapped_companies |-> 0]

\* a file that json.load rejects
CorruptFile(mtime) ==
    [exists |-> TRUE, mtime |-> mtime, parses |-> FALSE,
     mappings |-> EmptyMappings, total_companies |-> 0, mapped_companies |-> 0]

\* json.dump({"metadata": metadata, "mappings": mappings})
Artifact(mtime, mappings, total, mapped) ==
    [exists |-> TRUE, mtime |-> mtime, parses |-> TRUE,
     mappings |-> mappings, total_companies |-> total, mapped_companies |-> mapped]

\* os.path.exists of file k
Exists(files, k) == k \in DOMAIN files /\ files[k].exists

\* the while loop of get_next_available_filename
RECURSIVE NextNumbered(_, _)
NextNumbered(files, counter) ==
    IF ~Exists(files, counter) THEN counter
    ELSE NextNumbered(files, counter + 1)

\* a store that numbers the new file after the last one there is
AfterLastFile(files) ==
    IF \A k \in DOMAIN files : ~files[k].exists THEN 1
    ELSE 1 + CHOOSE k \in DOMAIN files :
               files[k].exists /\ \A j \in DOMAIN files : files[j].exists => j <= k

\* get_next_available_filename(base_filename)
get_next_available_filename(files) ==
    IF ~Exists(files, 1) THEN 1 ELSE NextNumbered(files, 2)

\* the modification time of a file written now: later than every file's
NewMtime(files) ==
    1 + CHOOSE m \in {0} \cup {files[k].mtime : k \in DOMAIN files} :
            \A k \in DOMAIN files : files[k].mtime <= m

\* a loader that takes the file with the highest number for the latest
LatestByNumber(files) ==
    LET found == {k \in DOMAIN files : files[k].exists}
    IN  IF found = {} THEN [file |-> 0, data |-> NoFile]
        ELSE LET latest == CHOOSE k \in found : \A j \in found : j <= k
             IN  IF files[latest].parses
                 THEN [file |-> latest, data |-> files[latest]]
                 ELSE [file |-> 0, data |-> NoFile]

\* get_latest_mapping_file(): [file |-> 0] is (None, None)
get_latest_mapping_file(files) ==
    LET found == {k \in DOMAIN files : files[k].exists}
    IN  IF found = {} THEN [file |-> 0, data |-> NoFile]
        ELSE LET latest == CHOOSE k \in found :
                              \A j \in found : files[j].mtime <= files[k].mtime
             IN  IF files[latest].parses
                 THEN [file |-> latest, data |-> files[latest]]
                 ELSE [file |-> 0, data |-> NoFile]

\* get_total_companies()
get_total_companies(tax) == Len(tax)

\* open(output_file, "w") and json.dump
WriteFile(files, k, contents) == [files EXCEPT ![k] = contents]

\* file_utils.save_mappings: the files after it; metadata["total_companies"]
\* is replaced by the taxonomy's count
save_mappings(files, tax, mappings, mapped) ==
    WriteFile(files, get_next_available_filename(files),
              Artifact(NewMtime(files), mappings, get_total_companies(tax), mapped))

\* a save that always writes base_filename itself
SaveOverBase(files, mappings, total, mapped) ==
    WriteFile(files, 1, Artifact(NewMtime(files), mappings, total, mapped))

\* yf_lookup.save_mappings: the metadata is written as given
yf_save_mappings(files, mappings, total, mapped) ==
    WriteFile(files, get_next_available_filename(files),
              Artifact(NewMtime(files), mappings, total, mapped))

\* ------------------------------------------------------------------------
\* utils.find_unmapped_companies
\* ------------------------------------------------------------------------

Digits == "0123456789"

IsDigit(c) == \E d \in 1..Len(Digits) : SubSeq(Digits, d, d) = c

DigitValue(c) == (CHOOSE d \in 1..Len(Digits) : SubSeq(Digits, d, d) = c) - 1

\* float(text) for a text of digits; -1 is ValueError
RECURSIVE ParseNumber(_, _)
ParseNumber(text, acc) ==
    IF text = "" THEN acc
    ELSE IF ~IsDigit(SubSeq(text, 1, 1)) THEN -1
    ELSE ParseNumber(SubSeq(text, 2, Len(text)), 10 * acc + DigitValue(SubSeq(text, 1, 1)))

\* market_cap_to_float, in millions, for caps that end in T, B or M
market_cap_to_float(cap) ==
    IF cap \in {"N/A", "Not publicly traded"} THEN 0
    ELSE IF cap = "" \/ Len(cap) = 1 THEN 0
    ELSE LET number == ParseNumber(SubSeq(cap, 1, Len(cap) - 1), 0)
             unit   == SubSeq(cap, Len(cap), Len(cap))
         IN  IF number < 0 THEN 0
             ELSE CASE unit = "T" -> number * 1000000
                    [] unit = "B" -> number * 1000
                    [] unit = "M" -> number
                    [] OTHER -> number \div 1000000

\* unmapped_details.sort(key=..., reverse=True): stable, greatest first
RECURSIVE InsertByCap(_, _)
InsertByCap(sorted, x) ==
    IF sorted = <<>> THEN <<x>>
    ELSE IF market_cap_to_float(Head(sorted).market_cap) >= market_cap_to_float(x.market_cap)
         THEN <<Head(sorted)>> \o InsertByCap(Tail(sorted), x)
         ELSE <<x>> \o sorted

RECURSIVE SortByCap(_)
SortByCap(details) ==
    IF details = <<>> THEN <<>>
    ELSE InsertByCap(SortByCap(SubSeq(details, 1, Len(details) - 1)),
                     details[Len(details)])

\* the entries of seq that satisfy keep, in order
RECURSIVE SelectNames(_, _)
SelectNames(seq, names) ==
    IF seq = <<>> THEN <<>>
    ELSE IF Head(seq).name \in names
         THEN <<Head(seq)>> \o SelectNames(Tail(seq), names)
         ELSE SelectNames(Tail(seq), names)

NoUnmappedFile == [exists |-> FALSE, total_companies |-> 0, unmapped |-> <<>>]

\* find_unmapped_companies(): the unmapped_companies.json it writes
find_unmapped_companies(tax, files) ==
    LET latest == get_latest_mapping_file(files)
        mapped_companies == IF latest.file # 0 THEN DOMAIN latest.data.mappings ELSE {}
        all_companies == {tax[k].name : k \in 1..Len(tax)}
        unmapped_companies == all_companies \ mapped_companies
    IN  [exists |-> TRUE,
         total_companies |-> Cardinality(all_companies),
         unmapped |-> SortByCap(SelectNames(tax, unmapped_companies))]

\* ------------------------------------------------------------------------
\* BatchOrchestrator: create_company_ticker_map and process_unmapped_companies
\* ------------------------------------------------------------------------

\* "if ticker:"
Truthy(ticker) == ticker # None /\ ticker # ""

\* a skip test that takes a null value for "not mapped"
IsNonNullKey(name, mappings) ==
    name \in DOMAIN mappings /\ mappings[name].shape # "null"

\* "if company_name not in existing_mappings" (and "not in company_ticker_map")
IsKey(name, mappings) == name \in DOMAIN mappings

\* company_ticker_map[company_name] = ticker
Put(mappings, name, value) ==
    [n \in DOMAIN mappings \cup {name} |-> IF n = name THEN value ELSE mappings[n]]

\* a merge that forgets the run's new mappings
MergeDropsNew(existing, new) == existing

\* a merge that lets the prior value win
MergePriorWins(existing, new) ==
    [n \in DOMAIN existing \cup DOMAIN new |->
        IF n \in DOMAIN existing THEN existing[n] ELSE new[n]]

\* {**existing_mappings, **new_mappings}
Merge(existing, new) ==
    [n \in DOMAIN existing \cup DOMAIN new |->
        IF n \in DOMAIN new THEN new[n] ELSE existing[n]]

NoPass == [file |-> 0, prior_empty |-> FALSE, candidates |-> <<>>, new_keys |-> {}]

\* the companies of the taxonomy
Companies == { [name |-> "abc corp",          market_cap |-> "500B"],
               [name |-> "ABC Corp.",         market_cap |-> "3T"],
               [name |-> "Acme Holdings Ltd", market_cap |-> "N/A"],
               [name |-> "Zeta Inc.",         market_cap |-> "12M"] }

Company(name) == CHOOSE c \in Companies : c.name = name

\* enriched_market_matrix.json: companies in an order other than that of
\* their market caps, two of them sharing a ticker; and one company listed
\* in two subsectors, beside one the provider does not know
Taxonomies ==
    { << Company("abc corp"), Company("Acme Holdings Ltd"), Company("ABC Corp.") >>,
      << Company("abc corp"), Company("Zeta Inc."), Company("abc corp") >> }

\* the provider of a batch run: self.client.symbol_lookup answers a term the
\* same way each time it answers
symbol_lookup(term) ==
    IF term = "abc" THEN <<ResultPool[1], ResultPool[2]>>
    ELSE IF term = "acme holdings" THEN <<ResultPool[4]>>
    ELSE IF term = "zeta" THEN <<ResultPool[3]>>
    ELSE <<>>

\* lookup_symbol on the names of a batch run, computed once: the value
\* returned when the provider raises, and when it answers
BatchLookup ==
    [name \in {c.name : c \in Companies}, raises \in BOOLEAN |->
        lookup_symbol(name, IF raises THEN ProviderError
                            ELSE [error |-> FALSE,
                                  result |-> symbol_lookup(SearchTerm(name))])]

\* no file on disk
NoDisk ==
    /\ taxonomy = <<>>
    /\ unmapped_file = NoUnmappedFile
    /\ fs = [k \in 1..MaxFiles |-> NoFile]

\* no script has run
NoRun ==
    /\ runs = 0
    /\ op = "none"
    /\ pc = "idle"
    /\ idx = 0
    /\ latest_file = 0
    /\ existing_mappings = EmptyMappings
    /\ new_mappings = EmptyMappings
    /\ output_file = 0
    /\ called = <<>>
    /\ erred = {}
    /\ prev_pass = NoPass

\* a script starts when none is running; FinnhubClient(api_key) is constructed
StartRun(kind, pc0) ==
    /\ pc # "running"
    /\ runs < MaxRuns
    /\ runs' = runs + 1
    /\ op' = kind
    /\ pc' = pc0
    /\ idx' = 1
    /\ new_mappings' = EmptyMappings
    /\ output_file' = 0
    /\ called' = <<>>
    /\ erred' = {}
    /\ now' = Epoch
    /\ last_call_time' = 0
    /\ calls_this_minute' = 0
    /\ returns' = <<>>
    /\ acq' = NoAcquire
    /\ UNCHANGED <<resolverVars, enrichVars, diskVars, prev_pass>>

\* one pass of the loop body: "if company_name not in <skip>:" lookup_symbol,
\* "if ticker:" record it; the provider raises or answers
LoopBody(name, skip, lookup_table) ==
    IF IsKey(name, skip)
    THEN /\ idx' = idx + 1
         /\ UNCHANGED <<limiterVars, new_mappings, called, erred, pc>>
    ELSE /\ WaitForRateLimit
         /\ \E raises \in BOOLEAN :
              LET ticker == lookup_table[name, raises]
              IN  /\ called' = Append(called, name)
                  /\ erred' = IF raises THEN erred \cup {name} ELSE erred
                  /\ IF ticker = Raised
                     THEN /\ pc' = "failed"
                          /\ UNCHANGED <<idx, new_mappings>>
                     ELSE /\ pc' = pc
                          /\ idx' = idx + 1
                          /\ new_mappings' =
                                IF Truthy(ticker)
                                THEN Put(new_mappings, name, Plain(ticker))
                                ELSE new_mappings

\* financials.create_company_ticker_map
StartCreate ==
    /\ StartRun("create_finnhub", "running")
    /\ latest_file' = 0
    /\ existing_mappings' = EmptyMappings

CreateStep ==
    /\ op = "create_finnhub" /\ pc = "running"
    /\ idx <= Len(taxonomy)
    /\ LoopBody(taxonomy[idx].name, new_mappings, BatchLookup)
    /\ UNCHANGED <<resolverVars, enrichVars, diskVars, runs, op, latest_file, existing_mappings,
                   output_file, prev_pass>>

CreateSave ==
    /\ op = "create_finnhub" /\ pc = "running"
    /\ idx > Len(taxonomy)
    /\ fs' = save_mappings(fs, taxonomy, new_mappings, Cardinality(DOMAIN new_mappings))
    /\ output_file' = get_next_available_filename(fs)
    /\ pc' = "done"
    /\ UNCHANGED <<limiterVars, resolverVars, enrichVars, taxonomy, unmapped_file, runs, op, idx, latest_file,
                   existing_mappings, new_mappings, called, erred, prev_pass>>

\* financials.process_unmapped_companies
StartUnmapped ==
    /\ IF ~unmapped_file.exists
       THEN \* open("unmapped_companies.json") raises
            /\ StartRun("unmapped_finnhub", "failed")
            /\ latest_file' = 0
            /\ existing_mappings' = EmptyMappings
       ELSE LET latest == get_latest_mapping_file(fs)
            IN  /\ StartRun("unmapped_finnhub", "running")
                /\ latest_file' = latest.file
                /\ existing_mappings' =
                      IF latest.file # 0 THEN latest.data.mappings ELSE EmptyMappings

UnmappedStep ==
    /\ op = "unmapped_finnhub" /\ pc = "running"
    /\ idx <= Len(unmapped_file.unmapped)
    /\ LoopBody(unmapped_file.unmapped[idx].name, existing_mappings, BatchLookup)
    /\ UNCHANGED <<resolverVars, enrichVars, diskVars, runs, op, latest_file, existing_mappings,
                   output_file, prev_pass>>

ThisPass(file) ==
    [file |-> file, prior_empty |-> DOMAIN existing_mappings = {},
     candidates |-> unmapped_file.unmapped, new_keys |-> DOMAIN new_mappings]

UnmappedSave ==
    /\ op = "unmapped_finnhub" /\ pc = "running"
    /\ idx > Len(unmapped_file.unmapped)
    /\ IF DOMAIN new_mappings = {}
       THEN /\ pc' = "done"
            /\ UNCHANGED <<fs, output_file, prev_pass>>
       ELSE IF latest_file = 0
       THEN \* ticker_data["metadata"] with ticker_data None raises TypeError
            /\ pc' = "failed"
            /\ UNCHANGED <<fs, output_file, prev_pass>>
       ELSE LET updated_mappings == Merge(existing_mappings, new_mappings)
            IN  /\ fs' = save_mappings(fs, taxonomy, updated_mappings,
                                       Cardinality(DOMAIN updated_mappings))
                /\ output_file' = get_next_available_filename(fs)
                /\ prev_pass' = ThisPass(get_next_available_filename(fs))
                /\ pc' = "done"
    /\ UNCHANGED <<limiterVars, resolverVars, enrichVars, taxonomy, unmapped_file, runs, op, idx, latest_file,
                   existing_mappings, new_mappings, called, erred>>

\* ------------------------------------------------------------------------
\* yf_lookup: YFinanceClient.lookup_symbol and the two passes
\* ------------------------------------------------------------------------

\* COMPANY_TICKERS, in insertion order
COMPANY_TICKERS ==
    << <<"apple", "AAPL">>, <<"microsoft", "MSFT">>, <<"alphabet", "GOOGL">>,
       <<"google", "GOOGL">>, <<"amazon", "AMZN">>, <<"meta platforms", "META">>,
       <<"facebook", "META">>, <<"tesla", "TSLA">>, <<"berkshire hathaway", "BRK-B">>,
       <<"jpmorgan chase", "JPM">>, <<"johnson & johnson", "JNJ">>, <<"walmart", "WMT">>,
       <<"procter & gamble", "PG">>, <<"exxonmobil", "XOM">>, <<"coca-cola", "KO">>,
       <<"pfizer", "PFE">>, <<"bank of america", "BAC">>, <<"home depot", "HD">>,
       <<"chevron", "CVX">>, <<"cisco", "CSCO">>, <<"pepsico", "PEP">>,
       <<"adobe", "ADBE">>, <<"netflix", "NFLX">>, <<"costco", "COST">>,
       <<"thermo fisher", "TMO">>, <<"verizon", "VZ">>, <<"abbott", "ABT">>,
       <<"abbvie", "ABBV">>, <<"salesforce", "CRM">>, <<"merck", "MRK">>,
       <<"comcast", "CMCSA">>, <<"mcdonalds", "MCD">>, <<"t-mobile", "TMUS">> >>

\* the suffix list of yf_lookup's clean-up loop, in order
YF_SUFFIXES == SUFFIXES \o << " company" >>

RECURSIVE YFStripSuffixes(_, _)
YFStripSuffixes(s, i) ==
    IF i > Len(YF_SUFFIXES) THEN s
    ELSE YFStripSuffixes(Remove(s, YF_SUFFIXES[i]), i + 1)

\* name_to_search of yf_lookup
YFCleanName(name) == Strip(YFStripSuffixes(Lower(name), 1))

\* str.replace(' ', by)
RECURSIVE ReplaceBlanks(_, _)
ReplaceBlanks(s, by) ==
    IF s = "" THEN ""
    ELSE (IF SubSeq(s, 1, 1) = " " THEN by ELSE SubSeq(s, 1, 1))
            \o ReplaceBlanks(SubSeq(s, 2, Len(s)), by)

\* the characters of s before its first blank
RECURSIVE UpToBlank(_)
UpToBlank(s) ==
    IF s = "" \/ SubSeq(s, 1, 1) = " " THEN ""
    ELSE SubSeq(s, 1, 1) \o UpToBlank(SubSeq(s, 2, Len(s)))

\* s.split()[0]; Raised is IndexError
FirstWord(s) == IF Strip(s) = "" THEN Raised ELSE UpToBlank(Strip(s))

\* the requests of the first loop: the tickers of the known names found in
\* the name, in table order
RECURSIVE KnownTickers(_, _)
KnownTickers(name_to_search, i) ==
    IF i > Len(COMPANY_TICKERS) THEN <<>>
    ELSE (IF Contains(name_to_search, COMPANY_TICKERS[i][1])
          THEN << [ticker |-> COMPANY_TICKERS[i][2], known |-> TRUE] >>
          ELSE <<>>) \o KnownTickers(name_to_search, i + 1)

\* possible_tickers
PossibleTickers(name_to_search) ==
    << [ticker |-> ReplaceBlanks(name_to_search, ""), known |-> FALSE],
       [ticker |-> ReplaceBlanks(name_to_search, "-"), known |-> FALSE],
       [ticker |-> FirstWord(name_to_search), known |-> FALSE] >>

\* yf.Ticker(ticker).info as the provider answers it: empty, a dict without
\* 'symbol', or a dict with it
NoInfo == [truthy |-> FALSE, symbol |-> None]
YFInfo(ticker) ==
    IF \E i \in 1..Len(COMPANY_TICKERS) : COMPANY_TICKERS[i][2] = ticker
    THEN [truthy |-> TRUE, symbol |-> ticker]
    ELSE IF ticker = "abc" THEN [truthy |-> TRUE, symbol |-> "ABC"]
    ELSE IF ticker = "acme" THEN [truthy |-> TRUE, symbol |-> "ACME"]
    ELSE IF ticker = "acmeholdings" THEN [truthy |-> TRUE, symbol |-> None]
    ELSE NoInfo

\* the two loops over the requests: request n raises when n is in fails
RECURSIVE YFTry(_, _, _)
YFTry(requests, n, fails) ==
    IF n > Len(requests) THEN None
    ELSE LET r == requests[n]
             info == IF n \in fails THEN NoInfo ELSE YFInfo(r.ticker)
         IN  IF r.known /\ info.truthy THEN r.ticker
             ELSE IF ~r.known /\ info.truthy /\ info.symbol # None THEN info.symbol
             ELSE YFTry(requests, n + 1, fails)

\* the requests one lookup_symbol call may send, in order
YFRequests(name) ==
    LET name_to_search == YFCleanName(name)
    IN  KnownTickers(name_to_search, 1) \o
        (IF FirstWord(name_to_search) = Raised THEN <<>>
         ELSE PossibleTickers(name_to_search))

\* YFinanceClient.lookup_symbol after the rate limiter
yf_lookup_symbol(name, fails) ==
    LET name_to_search == YFCleanName(name)
        known == KnownTickers(name_to_search, 1)
        t == YFTry(known, 1, fails)
    IN  IF t # None THEN t
        ELSE IF FirstWord(name_to_search) = Raised THEN None
        ELSE YFTry(known \o PossibleTickers(name_to_search), Len(known) + 1, fails)

\* the requests a loop over the tickers sends from request n on: one
\* yf.Ticker(t).info per ticker tried, up to the one that returns
RECURSIVE YFSent(_, _, _)
YFSent(reqs, n, fails) ==
    IF n > Len(reqs) THEN 0
    ELSE IF YFTry(SubSeq(reqs, 1, n), n, fails) # None
         THEN 1
         ELSE 1 + YFSent(reqs, n + 1, fails)

\* the number of requests one YFinanceClient.lookup_symbol call sends
YFIssued(name, fails) ==
    LET name_to_search == YFCleanName(name)
        known == KnownTickers(name_to_search, 1)
    IN  IF YFTry(known, 1, fails) # None THEN YFSent(known, 1, fails)
        ELSE IF FirstWord(name_to_search) = Raised THEN Len(known)
        ELSE Len(known) +
             YFSent(known \o PossibleTickers(name_to_search), Len(known) + 1, fails)

\* yf lookup_symbol on the names of a batch run, computed once: the value
\* returned when every request raises, and when the provider answers
YFBatchLookup ==
    [name \in {c.name : c \in Companies}, raises \in BOOLEAN |->
        yf_lookup_symbol(name, IF raises THEN 1..Len(YFRequests(name)) ELSE {})]

\* yf_lookup.create_company_ticker_map
YFStartCreate ==
    /\ StartRun("create_yf", "running")
    /\ latest_file' = 0
    /\ existing_mappings' = EmptyMappings

YFCreateStep ==
    /\ op = "create_yf" /\ pc = "running"
    /\ idx <= Len(taxonomy)
    /\ LoopBody(taxonomy[idx].name, new_mappings, YFBatchLookup)
    /\ UNCHANGED <<resolverVars, enrichVars, diskVars, runs, op, latest_file, existing_mappings,
                   output_file, prev_pass>>

YFCreateSave ==
    /\ op = "create_yf" /\ pc = "running"
    /\ idx > Len(taxonomy)
    /\ fs' = yf_save_mappings(fs, new_mappings, Len(taxonomy),
                              Cardinality(DOMAIN new_mappings))
    /\ output_file' = get_next_available_filename(fs)
    /\ pc' = "done"
    /\ UNCHANGED <<limiterVars, resolverVars, enrichVars, taxonomy, unmapped_file, runs, op, idx, latest_file,
                   existing_mappings, new_mappings, called, erred, prev_pass>>

\* yf_lookup.process_unmapped_companies
YFStartUnmapped ==
    /\ IF ~unmapped_file.exists
       THEN /\ StartRun("unmapped_yf", "failed")
            /\ latest_file' = 0
            /\ existing_mappings' = EmptyMappings
       ELSE LET latest == get_latest_mapping_file(fs)
            IN  /\ StartRun("unmapped_yf", "running")
                /\ latest_file' = latest.file
                /\ existing_mappings' =
                      IF latest.file # 0 THEN latest.data.mappings ELSE EmptyMappings

YFUnmappedStep ==
    /\ op = "unmapped_yf" /\ pc = "running"
    /\ idx <= Len(unmapped_file.unmapped)
    /\ LoopBody(unmapped_file.unmapped[idx].name, existing_mappings, YFBatchLookup)
    /\ UNCHANGED <<resolverVars, enrichVars, diskVars, runs, op, latest_file, existing_mappings,
                   output_file, prev_pass>>

YFUnmappedSave ==
    /\ op = "unmapped_yf" /\ pc = "running"
    /\ idx > Len(unmapped_file.unmapped)
    /\ IF DOMAIN new_mappings = {}
       THEN /\ pc' = "done"
            /\ UNCHANGED <<fs, output_file, prev_pass>>
       ELSE LET updated_mappings == Merge(existing_mappings, new_mappings)
                total == IF latest_file # 0 THEN fs[latest_file].total_companies
                         ELSE Cardinality(DOMAIN updated_mappings)
            IN  /\ fs' = yf_save_mappings(fs, updated_mappings, total,
                                          Cardinality(DOMAIN updated_mappings))
                /\ output_file' = get_next_available_filename(fs)
                /\ prev_pass' = ThisPass(get_next_available_filename(fs))
                /\ pc' = "done"
    /\ UNCHANGED <<limiterVars, resolverVars, enrichVars, taxonomy, unmapped_file, runs, op, idx, latest_file,
                   existing_mappings, new_mappings, called, erred>>

\* process_market_data.clean_company_name: name.split('(')[0]
RECURSIVE BeforeParenthesis(_)
BeforeParenthesis(s) ==
    IF s = "" \/ SubSeq(s, 1, 1) = "(" THEN ""
    ELSE SubSeq(s, 1, 1) \o BeforeParenthesis(SubSeq(s, 2, Len(s)))

\* name.strip(' ,.;')
RECURSIVE StripChars(_)
StripChars(s) ==
    LET junk(c) == c \in {" ", ",", ".", ";"}
    IN  IF s = "" THEN ""
        ELSE IF junk(SubSeq(s, 1, 1)) THEN StripChars(SubSeq(s, 2, Len(s)))
        ELSE IF junk(SubSeq(s, Len(s), Len(s))) THEN StripChars(SubSeq(s, 1, Len(s) - 1))
        ELSE s

clean_company_name(name) == StripChars(BeforeParenthesis(name))

\* the model's answer for a company of the prompt: a symbol, or null
PerplexitySym(cleaned) ==
    IF cleaned = "abc corp" THEN "ABC"
    ELSE IF cleaned = "ABC Corp" THEN "ABCC"
    ELSE IF cleaned = "Acme Holdings Ltd" THEN "ACMH"
    ELSE None

\* get_tickers_from_perplexity(batch): [] when the request or the parse
\* fails, else one {name, sym} per company of the prompt, the name mapped
\* back through name_map
get_tickers_from_perplexity(batch, answers) ==
    IF ~answers THEN <<>>
    ELSE LET cleaned == [k \in 1..Len(batch) |-> clean_company_name(batch[k].name)]
             name_map(item) ==
                 batch[CHOOSE k \in 1..Len(batch) :
                          /\ cleaned[k] = item
                          /\ \A j \in 1..Len(batch) : cleaned[j] = item => j <= k].name
         IN  [k \in 1..Len(batch) |->
                [name |-> name_map(cleaned[k]), sym |-> PerplexitySym(cleaned[k])]]

\* new_mappings[result["name"]] = result["sym"], for the results in order
RECURSIVE PutResults(_, _)
PutResults(mappings, results) ==
    IF results = <<>> THEN mappings
    ELSE PutResults(Put(mappings, Head(results).name,
                        IF Head(results).sym = None THEN NullValue
                        ELSE Plain(Head(results).sym)),
                    Tail(results))

\* process_market_data.process_unmapped_with_perplexity: one batch holds
\* every candidate; no client of the resolver is built
ProcessUnmappedWithPerplexity ==
    /\ pc # "running"
    /\ runs < MaxRuns
    /\ runs' = runs + 1
    /\ op' = "unmapped_perplexity"
    /\ idx' = 1
    /\ called' = <<>>
    /\ erred' = {}
    /\ now' = Epoch
    /\ last_call_time' = 0
    /\ calls_this_minute' = 0
    /\ returns' = <<>>
    /\ acq' = NoAcquire
    /\ IF ~unmapped_file.exists
       THEN /\ pc' = "failed"
            /\ latest_file' = 0
            /\ existing_mappings' = EmptyMappings
            /\ new_mappings' = EmptyMappings
            /\ output_file' = 0
            /\ UNCHANGED fs
       ELSE LET latest == get_latest_mapping_file(fs)
                existing == IF latest.file # 0 THEN latest.data.mappings ELSE EmptyMappings
            IN  \E answers \in BOOLEAN :
                  LET results == IF unmapped_file.unmapped = <<>> THEN <<>>
                                 ELSE get_tickers_from_perplexity(unmapped_file.unmapped, answers)
                      new == PutResults(EmptyMappings, results)
                      updated_mappings == Merge(existing, new)
                  IN  /\ pc' = "done"
                      /\ latest_file' = latest.file
                      /\ existing_mappings' = existing
                      /\ new_mappings' = new
                      /\ IF DOMAIN new # {}
                         THEN /\ fs' = save_mappings(fs, taxonomy, updated_mappings,
                                                    Cardinality(DOMAIN updated_mappings))
                              /\ output_file' = get_next_available_filename(fs)
                         ELSE /\ output_file' = 0
                              /\ UNCHANGED fs
    /\ UNCHANGED <<resolverVars, enrichVars, taxonomy, unmapped_file, prev_pass>>

\* utils.clean_duplicate_tickers, the loop over mappings.items(): null
\* tickers are skipped, a ticker seen first gets an empty list, the company
\* is appended to its ticker's list
RECURSIVE GroupByTicker(_, _, _)
GroupByTicker(mappings, todo, acc) ==
    IF todo = {} THEN acc
    ELSE LET company == CHOOSE c \in todo : TRUE
             ticker == mappings[company].sym
             grouped ==
                 IF mappings[company].shape = "null" THEN acc
                 ELSE [t \in DOMAIN acc \cup {ticker} |->
                         IF t = ticker
                         THEN (IF t \in DOMAIN acc THEN acc[t] ELSE <<>>) \o <<company>>
                         ELSE acc[t]]
         IN  GroupByTicker(mappings, todo \ {company}, grouped)

\* ticker_to_companies, for mappings whose values are strings or null
ticker_to_companies(mappings) ==
    GroupByTicker(mappings, DOMAIN mappings, [t \in {} |-> <<>>])

\* the companies of ticker_to_companies[ticker]
CompaniesOf(mappings, ticker) ==
    LET companies == ticker_to_companies(mappings)[ticker]
    IN  {companies[k] : k \in 1..Len(companies)}

\* the keys of ticker_to_companies
TickersOf(mappings) == DOMAIN ticker_to_companies(mappings)

\* a detection that needs three companies for a duplicate
DuplicatesOfThree(mappings) ==
    {t \in TickersOf(mappings) : Len(ticker_to_companies(mappings)[t]) > 2}

\* duplicates: the tickers with more than one company
Duplicates(mappings) ==
    {t \in TickersOf(mappings) : Len(ticker_to_companies(mappings)[t]) > 1}

\* an annotation whose note names the company itself too
AnnotateWithSelf(mappings) ==
    [c \in DOMAIN mappings |->
        IF mappings[c].shape = "str" /\ mappings[c].sym \in Duplicates(mappings)
        THEN Annotated(mappings[c].sym, "Duplicate ticker used by",
                       CompaniesOf(mappings, mappings[c].sym))
        ELSE Annotated(mappings[c].sym, None, {})]

\* new_mappings of the clean-up: {sym, notes} for every company
AnnotateDuplicates(mappings) ==
    [c \in DOMAIN mappings |->
        IF mappings[c].shape = "str" /\ mappings[c].sym \in Duplicates(mappings)
        THEN Annotated(mappings[c].sym, "Duplicate ticker used by",
                       CompaniesOf(mappings, mappings[c].sym) \ {c})
        ELSE Annotated(mappings[c].sym, None, {})]

\* utils.count_unique_tickers: the count of the symbols of the latest file,
\* of either shape, null left out; 0 with no file
count_unique_tickers(files) ==
    LET latest == get_latest_mapping_file(files)
        m == latest.data.mappings
    IN  IF latest.file = 0 THEN 0
        ELSE Cardinality({m[c].sym : c \in {d \in DOMAIN m : m[d].sym # None}})

\* company_info.fetch_all_company_profiles: symbols, of either shape, null
\* and empty left out
ProfileSymbols(mappings) ==
    {mappings[c].sym : c \in {d \in DOMAIN mappings : Truthy(mappings[d].sym)}}

\* utils.clean_duplicate_tickers: a {sym, notes} value is no dictionary key,
\* "ticker not in ticker_to_companies" raises TypeError on it
CleanDuplicateTickers ==
    /\ pc # "running"
    /\ runs < MaxRuns
    /\ runs' = runs + 1
    /\ op' = "clean_duplicates"
    /\ idx' = 1
    /\ called' = <<>>
    /\ erred' = {}
    /\ now' = Epoch
    /\ last_call_time' = 0
    /\ calls_this_minute' = 0
    /\ returns' = <<>>
    /\ acq' = NoAcquire
    /\ LET latest == get_latest_mapping_file(fs)
           mappings == latest.data.mappings
       IN  /\ latest_file' = latest.file
           /\ existing_mappings' = mappings
           /\ IF latest.file = 0
              THEN /\ pc' = "done"
                   /\ new_mappings' = EmptyMappings
                   /\ output_file' = 0
                   /\ UNCHANGED fs
              ELSE IF \E c \in DOMAIN mappings : mappings[c].shape = "dict"
              THEN /\ pc' = "failed"
                   /\ new_mappings' = EmptyMappings
                   /\ output_file' = 0
                   /\ UNCHANGED fs
              ELSE IF Duplicates(mappings) = {}
              THEN /\ pc' = "done"
                   /\ new_mappings' = EmptyMappings
                   /\ output_file' = 0
                   /\ UNCHANGED fs
              ELSE /\ pc' = "done"
                   /\ new_mappings' = AnnotateDuplicates(mappings)
                   /\ fs' = save_mappings(fs, taxonomy, AnnotateDuplicates(mappings),
                                          Cardinality(TickersOf(mappings)))
                   /\ output_file' = get_next_available_filename(fs)
    /\ UNCHANGED <<resolverVars, enrichVars, taxonomy, unmapped_file, prev_pass>>

\* utils.find_unmapped_companies, run between two other scripts
FindUnmapped ==
    /\ pc # "running"
    /\ unmapped_file' = find_unmapped_companies(taxonomy, fs)
    /\ UNCHANGED <<limiterVars, resolverVars, enrichVars, taxonomy, fs, runVars>>

\* ------------------------------------------------------------------------
\* ParallelEnrichment: process_market_data.process_all_sectors
\* ------------------------------------------------------------------------

\* asyncio.Semaphore(5)
SemaphorePermits == 5

\* the companies asked for per subsector, and the placeholder's "* 9"
PlaceholderCount == 9

\* the subsectors per sector of the inputs the model follows
MaxSubsectors == 3

SectorNames == <<"Technology", "Energy">>

\* the subsector names; "Services" is a subsector of both sectors
SubsectorNames == << <<"Software", "Chips", "Services", "Cloud">>,
                     <<"Services", "Oil", "Solar", "Grid">> >>

\* market_data["sectors"] with n subsectors in each sector
MarketMatrix(n) ==
    [s \in 1..Len(SectorNames) |->
        [name |-> SectorNames[s],
         subsectors |-> [j \in 1..n |-> SubsectorNames[s][j]]]]

NoInputFile == [exists |-> FALSE, sectors |-> <<>>]

\* market_matrix.json: missing, or two sectors of one to MaxSubsectors subsectors
Inputs ==
    {NoInputFile} \cup
    {[exists |-> TRUE, sectors |-> MarketMatrix(n)] : n \in 1..MaxSubsectors}

\* the tasks list: one (sector, subsector) pair per subsector, sector-major
RECURSIVE Pairs(_)
Pairs(sectors) ==
    IF sectors = <<>> THEN <<>>
    ELSE [j \in 1..Len(Head(sectors).subsectors) |->
            [sector |-> Head(sectors).name, subsector |-> Head(sectors).subsectors[j]]]
         \o Pairs(Tail(sectors))

\* what the provider call does: it answers nine companies, it raises (or
\* answers text json.loads rejects), it answers fewer companies, or it
\* answers a JSON object without "companies"
EnrichResponses == {"ok", "raises", "short", "nokey"}

NoResult == [has_companies |-> FALSE, companies |-> <<>>]

\* the companies of a provider answer
Answer(sector, subsector, count) ==
    [k \in 1..count |->
        [name |-> subsector \o " of " \o sector \o " Co", market_cap |-> "1B"]]

\* a placeholder of one entry
PlaceholderOfOne(subsector) ==
    << [name |-> "Error processing " \o subsector, market_cap |-> "N/A"] >>

\* [{"name": f"Error processing {subsector}", "market_cap": "N/A"}] * 9
Placeholder(subsector) ==
    [k \in 1..PlaceholderCount |->
        [name |-> "Error processing " \o subsector, market_cap |-> "N/A"]]

\* get_companies_for_subsector(sector, subsector): the dict it returns
get_companies_for_subsector(sector, subsector, response) ==
    CASE response = "raises" ->
            [has_companies |-> TRUE, companies |-> Placeholder(subsector)]
      [] response = "ok" ->
            [has_companies |-> TRUE,
             companies |-> Answer(sector, subsector, PlaceholderCount)]
      [] response = "short" ->
            [has_companies |-> TRUE,
             companies |-> Answer(sector, subsector, PlaceholderCount - 1)]
      [] OTHER -> NoResult

\* the subsectors of the sectors before sector s
RECURSIVE SubsectorsBefore(_, _)
SubsectorsBefore(sectors, s) ==
    IF s <= 1 THEN 0
    ELSE Len(sectors[s - 1].subsectors) + SubsectorsBefore(sectors, s - 1)

\* a reassembly that counts the task_results from the last one
ResultIndexBackwards(sectors, s, j) ==
    SubsectorsBefore(sectors, Len(sectors) + 1) + 1 - (SubsectorsBefore(sectors, s) + j)

\* result_index when the loops reach subsector j of sector s
result_index(sectors, s, j) == SubsectorsBefore(sectors, s) + j

\* market_data after the update loops
Enriched(sectors, res) ==
    [s \in 1..Len(sectors) |->
        [name |-> sectors[s].name,
         subsectors |->
            [j \in 1..Len(sectors[s].subsectors) |->
                [name |-> sectors[s].subsectors[j],
                 companies |-> res[result_index(sectors, s, j)].companies]]]]

NoOutputFile == [exists |-> FALSE, writes |-> 0, sectors |-> <<>>]

\* an enriched_market_matrix.json left by an earlier run
OldOutputFile ==
    [exists |-> TRUE, writes |-> 0,
     sectors |-> << [name |-> "Technology", subsectors |-> <<>>] >>]

\* process_all_sectors has not been called
NoEnrichment ==
    /\ market_matrix = NoInputFile
    /\ enrich_pc = "idle"
    /\ task_pc = <<>>
    /\ permits = SemaphorePermits
    /\ task_results = <<>>
    /\ enriched_out = NoOutputFile
    /\ issue_log = <<>>
    /\ responses = <<>>

\* process_all_sectors up to asyncio.gather: open(input_file) raises when
\* the file is missing; else the semaphore and one task per pair
EnrichStart ==
    /\ enrich_pc = "idle"
    /\ IF ~market_matrix.exists
       THEN /\ enrich_pc' = "failed"
            /\ UNCHANGED <<task_pc, permits, task_results, responses>>
       ELSE /\ enrich_pc' = "gathering"
            /\ task_pc' = [i \in 1..Len(Pairs(market_matrix.sectors)) |-> "queued"]
            /\ permits' = SemaphorePermits
            /\ task_results' = [i \in 1..Len(Pairs(market_matrix.sectors)) |-> NoResult]
            /\ responses' = [i \in 1..Len(Pairs(market_matrix.sectors)) |-> "none"]
    /\ UNCHANGED <<market_matrix, enriched_out, issue_log>>
    /\ UNCHANGED <<limiterVars, resolverVars, diskVars, runVars>>

\* bounded_get_companies: "async with semaphore" takes a slot and the
\* request is issued. The tasks start in the order of the list, and the
\* client is the synchronous OpenAI client: its call returns before the
\* event loop runs another task
TaskIssue(i) ==
    /\ enrich_pc = "gathering"
    /\ task_pc[i] = "queued"
    /\ \A j \in 1..(i - 1) : task_pc[j] = "done"
    /\ permits > 0
    /\ permits' = permits - 1
    /\ task_pc' = [task_pc EXCEPT ![i] = "requesting"]
    /\ issue_log' = Append(issue_log,
                           [task |-> i,
                            released |-> Cardinality({j \in DOMAIN task_pc :
                                                         task_pc[j] = "done"})])
    /\ UNCHANGED <<market_matrix, enrich_pc, task_results, enriched_out, responses>>
    /\ UNCHANGED <<limiterVars, resolverVars, diskVars, runVars>>

\* a task that keeps its slot when its request has returned
TaskReturnKeepsSlot(i) ==
    /\ enrich_pc = "gathering"
    /\ task_pc[i] = "requesting"
    /\ \E response \in EnrichResponses :
          LET pair == Pairs(market_matrix.sectors)[i]
          IN  /\ task_results' = [task_results EXCEPT ![i] =
                     get_companies_for_subsector(pair.sector, pair.subsector, response)]
              /\ responses' = [responses EXCEPT ![i] = response]
    /\ task_pc' = [task_pc EXCEPT ![i] = "done"]
    /\ UNCHANGED <<market_matrix, enrich_pc, enriched_out, issue_log, permits>>
    /\ UNCHANGED <<limiterVars, resolverVars, diskVars, runVars>>

\* the request returns or fails, get_companies_for_subsector returns and
\* the slot is released
TaskReturn(i) ==
    /\ enrich_pc = "gathering"
    /\ task_pc[i] = "requesting"
    /\ \E response \in EnrichResponses :
          LET pair == Pairs(market_matrix.sectors)[i]
          IN  /\ task_results' = [task_results EXCEPT ![i] =
                     get_companies_for_subsector(pair.sector, pair.subsector, response)]
              /\ responses' = [responses EXCEPT ![i] = response]
    /\ permits' = permits + 1
    /\ task_pc' = [task_pc EXCEPT ![i] = "done"]
    /\ UNCHANGED <<market_matrix, enrich_pc, enriched_out, issue_log>>
    /\ UNCHANGED <<limiterVars, resolverVars, diskVars, runVars>>

\* a script that opens the output file before the update loops
EnrichWriteOpensFirst ==
    /\ enrich_pc = "gathering"
    /\ \A i \in DOMAIN task_pc : task_pc[i] = "done"
    /\ IF \E i \in DOMAIN task_results : ~task_results[i].has_companies
       THEN /\ enrich_pc' = "failed"
            /\ enriched_out' = [exists |-> TRUE,
                                writes |-> enriched_out.writes + 1,
                                sectors |-> <<>>]
       ELSE /\ enrich_pc' = "done"
            /\ enriched_out' = [exists |-> TRUE,
                                writes |-> enriched_out.writes + 1,
                                sectors |-> Enriched(market_matrix.sectors, task_results)]
    /\ UNCHANGED <<market_matrix, task_pc, permits, task_results, issue_log, responses>>
    /\ UNCHANGED <<limiterVars, resolverVars, diskVars, runVars>>

\* after gather: the update loops and the one json.dump; a result without
\* "companies" raises KeyError before the file is opened
EnrichWrite ==
    /\ enrich_pc = "gathering"
    /\ \A i \in DOMAIN task_pc : task_pc[i] = "done"
    /\ IF \E i \in DOMAIN task_results : ~task_results[i].has_companies
       THEN /\ enrich_pc' = "failed"
            /\ UNCHANGED enriched_out
       ELSE /\ enrich_pc' = "done"
            /\ enriched_out' = [exists |-> TRUE,
                                writes |-> enriched_out.writes + 1,
                                sectors |-> Enriched(market_matrix.sectors, task_results)]
    /\ UNCHANGED <<market_matrix, task_pc, permits, task_results, issue_log, responses>>
    /\ UNCHANGED <<limiterVars, resolverVars, diskVars, runVars>>

InitEnrichment ==
    /\ now = Epoch
    /\ ClientInit
    /\ company_name = ""
    /\ provider_response = ProviderError
    /\ lookup = [done |-> FALSE, term |-> "", ticker |-> None]
    /\ NoClient
    /\ NoDisk
    /\ NoRun
    /\ market_matrix \in Inputs
    /\ enrich_pc = "idle"
    /\ task_pc = <<>>
    /\ permits = SemaphorePermits
    /\ task_results = <<>>
    /\ enriched_out \in {NoOutputFile, OldOutputFile}
    /\ issue_log = <<>>
    /\ responses = <<>>

NextEnrichment ==
    \/ EnrichStart
    \/ \E i \in DOMAIN task_pc : TaskIssue(i)
    \/ \E i \in DOMAIN task_pc : TaskReturn(i)
    \/ EnrichWrite

SpecEnrichment == InitEnrichment /\ [][NextEnrichment]_vars

\* the event loop runs a task that can run, and every request returns or fails
SpecEnrichmentLive == SpecEnrichment /\ WF_vars(NextEnrichment)

NoLookup == [done |-> FALSE, term |-> "", ticker |-> None]

InitResolver ==
    /\ now = Epoch
    /\ ClientInit
    /\ company_name \in CompanyNames
    /\ provider_response \in Responses
    /\ lookup = NoLookup
    /\ client = "finnhub"
    /\ acquires = 0
    /\ requests_sent = 0
    /\ NoDisk
    /\ NoRun
    /\ NoEnrichment

\* lookup_symbol(company_name): the rate limiter, then the one request
\* self.client.symbol_lookup(name_to_search) and the tiers
LookupSymbol ==
    /\ client = "finnhub"
    /\ ~lookup.done
    /\ WaitForRateLimit
    /\ acquires' = acquires + 1
    /\ requests_sent' = requests_sent + 1
    /\ lookup' = [done |-> TRUE, term |-> SearchTerm(company_name),
                  ticker |-> lookup_symbol(company_name, provider_response)]
    /\ UNCHANGED <<company_name, provider_response, client, diskVars, runVars, enrichVars>>

NextResolver == LookupSymbol

SpecResolver == InitResolver /\ [][NextResolver]_vars

\* ---- specification of one rate-limited client, called again and again ----

\* the calls one client is followed for
MaxCalls == 3

Clients == {"finnhub", "yfinance", "company_info"}

\* the arguments of the calls: company names for the two lookup_symbol,
\* ticker symbols for get_company_profile
ClientArguments(c) ==
    IF c = "company_info" THEN {"ABC", "ZZZ"}
    ELSE {"abc corp", "Acme Holdings Ltd", "Meta Platforms, Inc."}

\* what the Finnhub API does on a call: it raises, answers nothing, or
\* answers one entry
ClientResponses ==
    { ProviderError,
      [error |-> FALSE, result |-> <<>>],
      [error |-> FALSE, result |-> <<ResultPool[2]>>] }

\* CompanyInfoClient.get_company_profile past the rate limiter: the profile
\* (by its name) when the provider gives one, None when it gives none or
\* raises
get_company_profile(symbol, resp) ==
    IF resp.error THEN None
    ELSE IF resp.result = <<>> THEN None
    ELSE resp.result[1].description

InitClients ==
    /\ now = Epoch
    /\ ClientInit
    /\ client \in Clients
    /\ acquires = 0
    /\ requests_sent = 0
    /\ company_name \in ClientArguments(client)
    /\ provider_response \in ClientResponses
    /\ lookup = NoLookup
    /\ NoDisk
    /\ NoRun
    /\ NoEnrichment

\* the caller's loop comes to its next call
NextCall ==
    /\ lookup.done
    /\ acquires < MaxCalls
    /\ company_name' \in ClientArguments(client)
    /\ provider_response' \in ClientResponses
    /\ lookup' = NoLookup
    /\ UNCHANGED <<limiterVars, clientVars, diskVars, runVars, enrichVars>>

\* YFinanceClient.lookup_symbol(company_name): the rate limiter once, then
\* one request per ticker tried; any of the requests may raise
YFLookupSymbol ==
    /\ client = "yfinance"
    /\ ~lookup.done
    /\ WaitForRateLimit
    /\ acquires' = acquires + 1
    /\ \E fails \in SUBSET (1..Len(YFRequests(company_name))) :
          /\ requests_sent' = requests_sent + YFIssued(company_name, fails)
          /\ lookup' = [done |-> TRUE, term |-> YFCleanName(company_name),
                        ticker |-> yf_lookup_symbol(company_name, fails)]
    /\ UNCHANGED <<company_name, provider_response, client, diskVars, runVars, enrichVars>>

\* CompanyInfoClient.get_company_profile(symbol): the rate limiter, then the
\* one request self.client.company_profile2(symbol=symbol)
GetCompanyProfile ==
    /\ client = "company_info"
    /\ ~lookup.done
    /\ WaitForRateLimit
    /\ acquires' = acquires + 1
    /\ requests_sent' = requests_sent + 1
    /\ lookup' = [done |-> TRUE, term |-> company_name,
                  ticker |-> get_company_profile(company_name, provider_response)]
    /\ UNCHANGED <<company_name, provider_response, client, diskVars, runVars, enrichVars>>

NextClients ==
    \/ NextCall
    \/ LookupSymbol
    \/ YFLookupSymbol
    \/ GetCompanyProfile

SpecClients == InitClients /\ [][NextClients]_vars

\* ---- specification of one client's rate limiter under a running clock ----

InitRateLimiter ==
    /\ now = Epoch
    /\ ClientInit
    /\ company_name = ""
    /\ provider_response = ProviderError
    /\ lookup = NoLookup
    /\ NoClient
    /\ NoDisk
    /\ NoRun
    /\ NoEnrichment

\* the clock advances between two acquires
Tick ==
    /\ \E d \in TickSteps :
          /\ now + d <= Epoch + MaxElapsed
          /\ now' = now + d
    /\ UNCHANGED <<last_call_time, calls_this_minute, returns, acq>>
    /\ UNCHANGED <<resolverVars, enrichVars, diskVars, runVars>>

Acquire ==
    /\ now <= Epoch + MaxElapsed
    /\ WaitForRateLimit
    /\ UNCHANGED <<resolverVars, enrichVars, diskVars, runVars>>

NextRateLimiter == Tick \/ Acquire

SpecRateLimiter == InitRateLimiter /\ [][NextRateLimiter]_vars

\* ---- specification: the scripts run one after another over the files ----

\* the mapping files found on disk at the start: none, or one file, under
\* the base name or a numbered one
InitialFiles ==
    { CorruptFile(1),
      Artifact(1, EmptyMappings, 3, 0),
      Artifact(1, [n \in {"abc corp", "Zeta Inc."} |->
                      IF n = "abc corp" THEN Plain("ABC") ELSE NullValue], 3, 2),
      \* as a duplicate clean-up left it
      Artifact(1, AnnotateDuplicates([n \in {"abc corp", "ABC Corp."} |-> Plain("ABC")]),
               3, 1) }

InitialFileSystems ==
    { [k \in 1..MaxFiles |-> NoFile] } \cup
    { [k \in 1..MaxFiles |-> IF k = at THEN f ELSE NoFile] :
        at \in 1..MaxInitialFile, f \in InitialFiles }

Init ==
    /\ now = Epoch
    /\ ClientInit
    /\ company_name = ""
    /\ provider_response = ProviderError
    /\ lookup = NoLookup
    /\ NoClient
    /\ taxonomy \in Taxonomies
    /\ unmapped_file = NoUnmappedFile
    /\ fs \in InitialFileSystems
    /\ NoRun
    /\ NoEnrichment

Next ==
    \/ StartCreate
    \/ CreateStep
    \/ CreateSave
    \/ StartUnmapped
    \/ UnmappedStep
    \/ UnmappedSave
    \/ YFStartCreate
    \/ YFCreateStep
    \/ YFCreateSave
    \/ YFStartUnmapped
    \/ YFUnmappedStep
    \/ YFUnmappedSave
    \/ ProcessUnmappedWithPerplexity
    \/ CleanDuplicateTickers
    \/ FindUnmapped

Spec == Init /\ [][Next]_vars


\* ========================================================================
\* Claims
\* ========================================================================

\* ------------------------------------------------------------------------
\* C1: no 60-second interval holds more than rate_limit returned acquires:
\* of any rate_limit + 1 consecutive acquires of one client, the last
\* returns at least 60 seconds after the first.
\* ------------------------------------------------------------------------
C1_AtMostCapacityPerWindow ==
    Len(returns) = rate_limit + 1 =>
        returns[Len(returns)] - returns[1] >= Window

\* ------------------------------------------------------------------------
\* C2: an acquire invoked with the counter at capacity and less than 60 s
\* after windowStart returns no earlier than windowStart + 60, and on
\* return the counter is 1.
\* ------------------------------------------------------------------------
C2_BlockedAcquire ==
    (/\ acq.t_call > 0
     /\ acq.calls0 >= rate_limit
     /\ acq.t_call - acq.last0 < Window)
        => (now >= acq.last0 + Window /\ calls_this_minute = 1)

\* the third acquire of a window, invoked after the window's start, has
\* slept to the window's end
C2_Witness ==
    /\ acq.t_call > acq.last0
    /\ acq.last0 > 0
    /\ acq.calls0 >= rate_limit
    /\ acq.t_call - acq.last0 < Window
    /\ now = acq.last0 + Window
    /\ calls_this_minute = 1

\* ------------------------------------------------------------------------
\* C3: for "Alphabet Inc." the term lookup_symbol sends to the provider
\* is "google".
\* ------------------------------------------------------------------------
C3_AlphabetSearchesGoogle ==
    (lookup.done /\ company_name = "Alphabet Inc.") => lookup.term = "google"

\* ------------------------------------------------------------------------
\* C4: when some result of the provider's list is a Common Stock with no
\* '.' in its symbol whose (lowercased) description contains the
\* transformed name or the lowercased original name, lookup_symbol returns
\* the symbol of the first such result of the list.
\* ------------------------------------------------------------------------
C4_Qualifies(r) ==
    /\ r.type = "Common Stock"
    /\ \A k \in 1..Len(r.symbol) : SubSeq(r.symbol, k, k) # "."
    /\ \/ Contains(Lower(r.description), lookup.term)
       \/ Contains(Lower(r.description), Lower(company_name))

C5_ProviderErrorDoesNotStopTheBatch ==
    op = "create_finnhub" =>
        /\ pc # "failed"
        /\ \A n \in erred : BatchLookup[n, TRUE] = None
        /\ pc = "done" =>
              /\ \A k \in 1..Len(taxonomy) :
                    \E c \in 1..Len(called) : called[c] = taxonomy[k].name
              /\ output_file # 0
              /\ fs[output_file].exists
              /\ fs[output_file].parses
              /\ fs[output_file].mappings = new_mappings

\* the provider raised for the first company, a later one was resolved,
\* and the artifact is there
C5_Witness ==
    /\ op = "create_finnhub"
    /\ pc = "done"
    /\ taxonomy[1].name \in erred
    /\ taxonomy[1].name \notin DOMAIN new_mappings
    /\ DOMAIN new_mappings # {}
    /\ output_file # 0
    /\ fs[output_file].mappings = new_mappings

\* ------------------------------------------------------------------------
\* C6: in the unmapped re-pass (Finnhub and yfinance) the resolver is
\* never called with a name that is a key of the prior mapping, whatever
\* the value under the key, a symbol or null.
\* ------------------------------------------------------------------------
C6_NoCallForPriorKey ==
    op \in {"unmapped_finnhub", "unmapped_yf"} =>
        \A c \in 1..Len(called) : called[c] \notin DOMAIN existing_mappings

\* a candidate of a finished re-pass is a key of the prior mapping with a
\* null value, and another with a symbol; neither was looked up
C6_Witness ==
    /\ op \in {"unmapped_finnhub", "unmapped_yf"}
    /\ pc = "done"
    /\ \E j, k \in 1..Len(unmapped_file.unmapped) :
          LET n == unmapped_file.unmapped[j].name
              m == unmapped_file.unmapped[k].name
          IN  /\ n \in DOMAIN existing_mappings
              /\ existing_mappings[n].shape = "null"
              /\ m \in DOMAIN existing_mappings
              /\ existing_mappings[m].shape = "str"
              /\ \A c \in 1..Len(called) : called[c] \notin {n, m}

\* ------------------------------------------------------------------------
\* C7: a re-pass that ran against an empty prior mapping and wrote an
\* artifact, followed by a re-pass over the same candidates with that
\* artifact as the prior one, gives no new mapping in the second pass for
\* any name the first pass resolved.
\* ------------------------------------------------------------------------
C7_SecondPassAddsNothing ==
    (/\ op \in {"unmapped_finnhub", "unmapped_yf"}
     /\ pc \in {"running", "done"}
     /\ prev_pass.file # 0
     /\ prev_pass.prior_empty
     /\ prev_pass.file # output_file
     /\ \A k \in DOMAIN fs : fs[k].exists /\ k # output_file
            => fs[k].mtime <= fs[prev_pass.file].mtime
     /\ unmapped_file.unmapped = prev_pass.candidates)
        => DOMAIN new_mappings \cap prev_pass.new_keys = {}

\* the second pass is over: the first had resolved a name and missed
\* another, the second looked up the missed one only
C7_Witness ==
    /\ op \in {"unmapped_finnhub", "unmapped_yf"}
    /\ pc = "done"
    /\ runs = 2
    /\ prev_pass.file # 0
    /\ prev_pass.prior_empty
    /\ latest_file = prev_pass.file
    /\ unmapped_file.unmapped = prev_pass.candidates
    /\ prev_pass.new_keys # {}
    /\ called # <<>>
    /\ \A c \in 1..Len(called) : called[c] \notin prev_pass.new_keys

\* ------------------------------------------------------------------------
\* C8: the mappings of the artifact a run writes are the key union of the
\* prior mapping the run loaded and the run's new mappings; under a key of
\* both, the new value is stored.
\* ------------------------------------------------------------------------
C8_KeyUnionNewWins ==
    (pc = "done" /\ output_file # 0) =>
        LET written == fs[output_file].mappings
        IN  /\ DOMAIN written = DOMAIN existing_mappings \cup DOMAIN new_mappings
            /\ \A n \in DOMAIN new_mappings : written[n] = new_mappings[n]
            /\ \A n \in DOMAIN existing_mappings \ DOMAIN new_mappings :
                  written[n] = existing_mappings[n]

\* a Perplexity pass answered a name of the prior mapping with another
\* symbol; the artifact holds the new symbol, and the prior keys it did
\* not answer
C8_Witness ==
    /\ op = "unmapped_perplexity"
    /\ pc = "done"
    /\ output_file # 0
    /\ \E n \in DOMAIN existing_mappings \cap DOMAIN new_mappings :
          /\ existing_mappings[n] # new_mappings[n]
          /\ fs[output_file].mappings[n] = new_mappings[n]
    /\ \E n \in DOMAIN existing_mappings \ DOMAIN new_mappings :
          fs[output_file].mappings[n] = existing_mappings[n]

\* ------------------------------------------------------------------------
\* C9: a save creates one file, under the first name of base, base_2,
\* base_3, ... that does not exist: every name before it exists already.
\* ------------------------------------------------------------------------
C9_SaveWritesFirstFreeName ==
    [][fs' # fs =>
        \E k \in DOMAIN fs :
            /\ ~fs[k].exists
            /\ fs'[k].exists
            /\ \A j \in DOMAIN fs : j < k => fs[j].exists
            /\ \A j \in DOMAIN fs : j # k => fs'[j] = fs[j]
            /\ output_file' = k]_vars

\* only the base file was there; the first save made _2, the second _3
C9_Witness ==
    /\ runs = 2
    /\ fs[1].exists /\ fs[1].mtime = 1
    /\ fs[2].exists /\ fs[2].mtime = 2
    /\ fs[3].exists /\ fs[3].mtime = 3
    /\ \A k \in DOMAIN fs : k > 3 => ~fs[k].exists
    /\ output_file = 3

\* ------------------------------------------------------------------------
\* C10: no step of a resolution run, an unmapped re-pass or a duplicate
\* clean-up changes or removes a mapping file that exists: it is there
\* afterwards with the same contents.
\* ------------------------------------------------------------------------
C10_ExistingArtifactsUntouched ==
    [][\A k \in DOMAIN fs : fs[k].exists => fs'[k] = fs[k]]_vars

\* a clean-up has written its annotated artifact beside the one it read,
\* which is unchanged, after a yfinance run wrote beside the initial file
C10_Witness ==
    /\ op = "clean_duplicates"
    /\ pc = "done"
    /\ output_file = 3
    /\ latest_file = 2
    /\ fs[1].exists /\ fs[1].mtime = 1
    /\ fs[latest_file].mappings = existing_mappings
    /\ \E n \in DOMAIN existing_mappings : existing_mappings[n].shape = "str"
    /\ fs[output_file].mappings # existing_mappings

\* ------------------------------------------------------------------------
\* C11: a script that loads the latest mapping file gets the file with the
\* greatest modification time and its contents; with no mapping file, or
\* with that most recent file unparseable, it gets (None, None) and goes
\* on without raising there.
\* ------------------------------------------------------------------------
C11_Loads(kind) ==
    /\ runs' = runs + 1
    /\ op' = kind
    /\ kind \in {"unmapped_finnhub", "unmapped_yf", "unmapped_perplexity", "clean_duplicates"}
    /\ (kind = "clean_duplicates" \/ unmapped_file.exists)

C11_LatestByMtime ==
    [][\A kind \in {op'} : C11_Loads(kind) =>
        LET found == {k \in DOMAIN fs : fs[k].exists}
            newest == {k \in found : \A j \in found : fs[j].mtime <= fs[k].mtime}
        IN  /\ (found = {} \/ \E k \in newest : ~fs[k].parses)
                  => /\ latest_file' = 0
                     /\ existing_mappings' = EmptyMappings
                     /\ (kind # "clean_duplicates" => pc' = "running" \/ pc' = "done")
            /\ (found # {} /\ \A k \in newest : fs[k].parses)
                  => /\ latest_file' \in newest
                     /\ existing_mappings' = fs[latest_file'].mappings]_vars

\* a pass has loaded company_ticker_map.json, written after the
\* company_ticker_map_2.json that was there before
C11_Witness ==
    /\ op \in {"unmapped_finnhub", "unmapped_yf", "unmapped_perplexity", "clean_duplicates"}
    /\ latest_file = 1
    /\ fs[2].exists
    /\ fs[2].mtime < fs[1].mtime
    /\ existing_mappings = fs[1].mappings
    /\ DOMAIN existing_mappings # {}

\* ------------------------------------------------------------------------
\* C12: the duplicate set the clean-up computes from the mappings it
\* loaded holds exactly the non-null tickers that more than one company
\* maps to, and the list of each holds every company mapped to it, once,
\* and no other company.
\* ------------------------------------------------------------------------
C12_SharedBy(mappings, ticker) ==
    {c \in DOMAIN mappings : mappings[c].shape # "null" /\ mappings[c].sym = ticker}

C12_DuplicatesExact ==
    (op = "clean_duplicates" /\ pc = "done" /\ latest_file # 0) =>
        LET m == existing_mappings
            shared == {m[c].sym : c \in {d \in DOMAIN m : m[d].shape # "null"}}
        IN  /\ Duplicates(m) = {t \in shared : Cardinality(C12_SharedBy(m, t)) > 1}
            /\ \A t \in Duplicates(m) :
                  /\ CompaniesOf(m, t) = C12_SharedBy(m, t)
                  /\ Len(ticker_to_companies(m)[t]) = Cardinality(C12_SharedBy(m, t))

\* the clean-up ran on mappings where two companies share a ticker and a
\* third has a ticker of its own
C12_Witness ==
    /\ op = "clean_duplicates"
    /\ pc = "done"
    /\ latest_file # 0
    /\ \E t \in Duplicates(existing_mappings) :
          Cardinality(CompaniesOf(existing_mappings, t)) = 2
    /\ \E c \in DOMAIN existing_mappings :
          /\ existing_mappings[c].shape = "str"
          /\ existing_mappings[c].sym \notin Duplicates(existing_mappings)

\* ------------------------------------------------------------------------
\* C13: the annotated mapping the clean-up writes has the keys of the
\* original, each entry with its original ticker; an entry whose ticker
\* another company shares has a non-null note naming exactly the other
\* companies that share it, every other entry has a null note.
\* ------------------------------------------------------------------------
C13_AnnotatedMapping ==
    (op = "clean_duplicates" /\ pc = "done" /\ output_file # 0) =>
        LET m == existing_mappings
            a == fs[output_file].mappings
        IN  /\ DOMAIN a = DOMAIN m
            /\ \A c \in DOMAIN m :
                  LET sharing == C12_SharedBy(m, m[c].sym) \ {c}
                  IN  /\ a[c].shape = "dict"
                      /\ a[c].sym = m[c].sym
                      /\ IF m[c].shape # "null" /\ sharing # {}
                         THEN a[c].notes # None /\ a[c].others = sharing
                         ELSE a[c].notes = None /\ a[c].others = {}

\* the written artifact has a noted entry and an entry with a null note
C13_Witness ==
    /\ op = "clean_duplicates"
    /\ pc = "done"
    /\ output_file # 0
    /\ \E c, d \in DOMAIN existing_mappings :
          /\ fs[output_file].mappings[c].notes # None
          /\ fs[output_file].mappings[c].others # {}
          /\ c \notin fs[output_file].mappings[c].others
          /\ fs[output_file].mappings[d].notes = None
          /\ fs[output_file].mappings[d].sym = existing_mappings[d].sym

\* ------------------------------------------------------------------------
\* C14: the readers of an artifact accept both shapes of value: on a file
\* whose values are {sym, notes} objects the unique-ticker count and the
\* symbols of the profile fetch are those of the objects' sym fields, and
\* the duplicate clean-up completes without raising.
\* ------------------------------------------------------------------------
C14_ReadersAcceptBothShapes ==
    (/\ op = "clean_duplicates"
     /\ latest_file # 0
     /\ \E c \in DOMAIN existing_mappings : existing_mappings[c].shape = "dict")
        => /\ pc = "done"
           /\ ProfileSymbols(existing_mappings)
                 = {existing_mappings[c].sym : c \in DOMAIN existing_mappings} \ {None}
           /\ count_unique_tickers(fs) >= 0

\* ------------------------------------------------------------------------
\* C15: in the output of process_all_sectors the subsector at position i,
\* in sector-major input order, holds the result of the request issued
\* for input pair i.
\* ------------------------------------------------------------------------
\* the subsector objects of an output, sector after sector
RECURSIVE C15_Subsectors(_)
C15_Subsectors(sectors) ==
    IF sectors = <<>> THEN <<>>
    ELSE Head(sectors).subsectors \o C15_Subsectors(Tail(sectors))

C15_OutputInInputOrder ==
    enrich_pc = "done" =>
        LET out == C15_Subsectors(enriched_out.sectors)
            pairs == Pairs(market_matrix.sectors)
        IN  /\ Len(out) = Len(pairs)
            /\ \A i \in 1..Len(pairs) :
                  /\ out[i].name = pairs[i].subsector
                  /\ out[i].companies = task_results[i].companies
                  /\ \A k \in 1..Len(out[i].companies) :
                        out[i].companies[k].name \in
                            { pairs[i].subsector \o " of " \o pairs[i].sector \o " Co",
                              "Error processing " \o pairs[i].subsector }

\* six pairs, every request answered, the output written
C15_Witness ==
    /\ enrich_pc = "done"
    /\ Len(task_pc) = 6
    /\ \A i \in DOMAIN responses : responses[i] = "ok"
    /\ enriched_out.sectors[2].subsectors[1].companies = task_results[4].companies
    /\ task_results[4].companies # task_results[3].companies

\* ------------------------------------------------------------------------
\* C16: a provider call that raises does not stop the others: the run
\* does not fail for it, the output has one entry per input pair in input
\* order, the position of the failed pair holds exactly 9 placeholder
\* entries ("Error processing <subsector>", "N/A") and the position of an
\* answered pair holds its own answer.
\* ------------------------------------------------------------------------
C16_ErrorGivesPlaceholder ==
    /\ enrich_pc = "failed" =>
          \/ ~market_matrix.exists
          \/ \E i \in DOMAIN responses : responses[i] = "nokey"
    /\ enrich_pc = "done" =>
          LET out == C15_Subsectors(enriched_out.sectors)
              pairs == Pairs(market_matrix.sectors)
          IN  /\ Len(out) = Len(pairs)
              /\ \A i \in 1..Len(pairs) :
                    /\ out[i].name = pairs[i].subsector
                    /\ responses[i] = "raises" =>
                          /\ Len(out[i].companies) = 9
                          /\ \A k \in 1..9 :
                                out[i].companies[k] =
                                    [name |-> "Error processing " \o pairs[i].subsector,
                                     market_cap |-> "N/A"]
                    /\ responses[i] = "ok" =>
                          /\ Len(out[i].companies) = 9
                          /\ \A k \in 1..9 :
                                out[i].companies[k].name =
                                    pairs[i].subsector \o " of " \o pairs[i].sector \o " Co"

\* the second call raised, the others were answered, the output is written
C16_Witness ==
    /\ enrich_pc = "done"
    /\ Len(responses) >= 3
    /\ responses[2] = "raises"
    /\ \A i \in DOMAIN responses : i # 2 => responses[i] = "ok"
    /\ enriched_out.writes = 1

\* ------------------------------------------------------------------------
\* C17: every subsector object of an output written by process_all_sectors
\* holds exactly 9 company entries, whatever the provider responded.
\* ------------------------------------------------------------------------
C17_NineCompaniesEach ==
    enriched_out.writes > 0 =>
        \A s \in DOMAIN enriched_out.sectors :
            \A j \in DOMAIN enriched_out.sectors[s].subsectors :
                Len(enriched_out.sectors[s].subsectors[j].companies) = 9

\* ------------------------------------------------------------------------
\* C18: at most 5 requests are in flight at any moment; a request beyond
\* the fifth is issued only when enough earlier tasks have released their
\* slots; and once the tasks are created every task issues its request.
\* ------------------------------------------------------------------------
C18_InFlight == {i \in DOMAIN task_pc : task_pc[i] = "requesting"}

C18_BoundedFanOut ==
    /\ [](/\ Cardinality(C18_InFlight) <= 5
          /\ Cardinality(C18_InFlight) + permits = 5
          /\ \A k \in DOMAIN issue_log : k > 5 => issue_log[k].released >= k - 5)
    /\ (enrich_pc = "gathering") ~>
          (\A i \in DOMAIN task_pc : \E k \in DOMAIN issue_log : issue_log[k].task = i)

\* the sixth task has issued its request, after a slot was released
C18_Witness ==
    /\ Len(issue_log) >= 6
    /\ issue_log[6].task = 6
    /\ issue_log[6].released >= 1
    /\ task_pc[6] = "requesting"

\* ------------------------------------------------------------------------
\* C19: the output file is written at most once, by the step that follows
\* the completion of every task; a run that fails leaves the output file
\* as it was, absent or with its old contents.
\* ------------------------------------------------------------------------
C19_OneWriteAfterAllTasks ==
    /\ [][enriched_out' # enriched_out =>
            /\ enriched_out.writes = 0
            /\ \A i \in DOMAIN task_pc : task_pc[i] = "done"
            /\ enrich_pc' = "done"]_vars
    /\ [](enriched_out.writes <= 1)
    /\ [](enrich_pc = "failed" => enriched_out \in {NoOutputFile, OldOutputFile})

\* every task completed, one result had no "companies", the run failed
\* and the old output file is as it was
C19_Witness ==
    /\ enrich_pc = "failed"
    /\ task_pc # <<>>
    /\ \A i \in DOMAIN task_pc : task_pc[i] = "done"
    /\ enriched_out = OldOutputFile

\* ------------------------------------------------------------------------
\* C20: when an acquire has returned, last_call_time is the time it
\* returned at, also for an acquire that slept.
\* ------------------------------------------------------------------------
C20_WindowStartIsReturnTime ==
    returns # <<>> => last_call_time = returns[Len(returns)]

\* ------------------------------------------------------------------------
\* C21: when the provider answers without error, lookup_symbol returns a
\* symbol with an exchange suffix only when no Common Stock result without
\* a suffix passes the first or the second loop, and it is then the symbol
\* of the first Common Stock result of the list; and it returns empty
\* exactly when the list holds no Common Stock result.
\* ------------------------------------------------------------------------
C21_HasSuffix(symbol) == \E k \in 1..Len(symbol) : SubSeq(symbol, k, k) = "."

\* more than half of the words of the search term are words of the description
C21_Overlaps(r) ==
    LET q == Words(lookup.term)
        d == Words(Lower(r.description))
    IN  q # {} /\ 2 * Cardinality(q \cap d) > Cardinality(q)

C21_USMatch(r) ==
    /\ r.type = "Common Stock"
    /\ ~C21_HasSuffix(r.symbol)
    /\ \/ C4_Qualifies(r)
       \/ C21_Overlaps(r)

C21_FallbackToFirstCommonStock ==
    (lookup.done /\ ~provider_response.error) =>
        LET rs == provider_response.result
            cs == { k \in 1..Len(rs) : rs[k].type = "Common Stock" }
        IN  /\ lookup.ticker = None <=> cs = {}
            /\ (lookup.ticker # None /\ C21_HasSuffix(lookup.ticker)) =>
                  /\ \A k \in 1..Len(rs) : ~C21_USMatch(rs[k])
                  /\ \E k \in cs : /\ \A j \in cs : k <= j
                                   /\ lookup.ticker = rs[k].symbol

\* "Acme Holdings Ltd" answered by an ETF, then ABC.L, then a Common Stock
\* without suffix that passes neither loop: ABC.L is returned
C21_Witness ==
    /\ lookup.done
    /\ company_name = "Acme Holdings Ltd"
    /\ provider_response.error = FALSE
    /\ provider_response.result = <<ResultPool[3], ResultPool[1], ResultPool[6]>>
    /\ lookup.ticker = "ABC.L"

\* ------------------------------------------------------------------------
\* C26: lookup_symbol never reaches the division of the second loop with
\* an empty set of search words, whatever the name (also one the clean-up
\* reduces to the empty string) and the result list.
\* ------------------------------------------------------------------------
\* the second loop is entered and meets a Common Stock without suffix
C26_DivisionReached(name, results) ==
    /\ Tier1(results, 1, SearchTerm(name), name) = None
    /\ \E k \in 1..Len(results) :
          /\ results[k].type = "Common Stock"
          /\ ~C21_HasSuffix(results[k].symbol)

C26_NoDivisionByZero ==
    (lookup.done /\ ~provider_response.error) =>
        ~(/\ Words(lookup.term) = {}
          /\ C26_DivisionReached(company_name, provider_response.result))

\* "." is cleaned up to the empty string; the answer holds a Common Stock
\* without suffix after one with a suffix, and its symbol is returned
C26_Witness ==
    /\ lookup.done
    /\ company_name = "."
    /\ lookup.term = ""
    /\ provider_response.error = FALSE
    /\ provider_response.result = <<ResultPool[1], ResultPool[6]>>
    /\ lookup.ticker = "ZZZ"

\* ------------------------------------------------------------------------
\* C22: the artifact written by an unmapped pass (Finnhub, yfinance or
\* Perplexity) holds, under every key of the prior mapping the pass
\* loaded, the prior value.
\* ------------------------------------------------------------------------
C22_PriorValuesKept ==
    (/\ op \in {"unmapped_finnhub", "unmapped_yf", "unmapped_perplexity"}
     /\ pc = "done"
     /\ output_file # 0) =>
        \A n \in DOMAIN existing_mappings :
            fs[output_file].mappings[n] = existing_mappings[n]

\* ------------------------------------------------------------------------
\* C23: within one run the resolver is not called again for a name the
\* run has already resolved to a symbol, also when the name occurs several
\* times in the taxonomy or in the list of unmapped candidates.
\* ------------------------------------------------------------------------
\* the earlier call for the name resolved it: the provider answered every
\* call made for it in this run, and the run holds a symbol for it
C23_ResolvedAtFirstCall(name) ==
    /\ name \in DOMAIN new_mappings
    /\ name \notin erred

C23_NoSecondCallForResolvedName ==
    op \in {"create_finnhub", "create_yf", "unmapped_finnhub", "unmapped_yf"} =>
        \A c1, c2 \in 1..Len(called) :
            (c1 < c2 /\ called[c1] = called[c2]) => ~C23_ResolvedAtFirstCall(called[c1])

\* ------------------------------------------------------------------------
\* C24: an unmapped re-pass (Finnhub or yfinance) that finds no prior
\* artifact, or cannot parse the latest one, works on an empty prior
\* mapping, and when it has resolved a name it ends by writing a first
\* artifact that holds exactly its new mappings: it does not fail.
\* ------------------------------------------------------------------------
C24_FirstArtifactWritten ==
    (/\ op \in {"unmapped_finnhub", "unmapped_yf"}
     /\ latest_file = 0
     /\ pc # "running"
     /\ DOMAIN new_mappings # {}) =>
        /\ existing_mappings = EmptyMappings
        /\ pc = "done"
        /\ output_file # 0
        /\ fs[output_file].mappings = new_mappings

\* ------------------------------------------------------------------------
\* C25: in each rate-limited client (Finnhub, yfinance, company info) the
\* requests sent to the provider never outnumber the rate limiter
\* acquires the client has completed.
\* ------------------------------------------------------------------------
C25_RequestsWithinAcquires ==
    requests_sent <= acquires

====
